---- MODULE Spec2Model ----
(***************************************************************************)
(* Model of the RoadDoctor dashboard script (src/app.js): the data loader, *)
(* the CSV parser, the view initializers, the display-mode and tile-style  *)
(* buttons and the photo-upload flow.                                      *)
(*                                                                         *)
(* Strings are TLA+ strings, read character by character with SubSeq.      *)
(* A JavaScript value whose type the code does not fix (a CSV field, a     *)
(* JSON payload, a number) is a tagged record [kind, val]; a finite        *)
(* number is held in thousandths (7.5 is Num(7500)).                       *)
(***************************************************************************)
EXTENDS Integers, Sequences, FiniteSets, TLC

VARIABLES
    \* the files the server holds
    server,
    \* loadData
    pc, fetches, responses, alerts,
    defectsData, worstRoadsData, statsData,
    \* what the view initializers rendered
    viewsDone, dashboard, chart, worstRoads, legend,
    \* Leaflet map
    markersLayer, heatmapLayer, criticalLayer, overlays,
    currentTileLayer, tiles, timers, pulses, mapView,
    \* photo upload
    uploadState, timeouts, processingModal, mapInstruction, confirmModal,
    tempMarkers,
    \* parseCSV applied to a text on its own
    csvPc, csvText, csvValues, csvRows, csvFrontendRows

loadVars == <<pc, fetches, responses, alerts>>
dataVars == <<defectsData, worstRoadsData, statsData>>
viewVars == <<viewsDone, dashboard, chart, worstRoads, legend>>
layerVars == <<markersLayer, heatmapLayer, criticalLayer>>
modeVars == <<overlays, timers>>
tileVars == <<currentTileLayer, tiles>>
uploadVars == <<uploadState, timeouts, processingModal, mapInstruction,
                confirmModal, tempMarkers>>
csvVars == <<csvPc, csvText, csvValues, csvRows, csvFrontendRows>>
mapVars == <<mapView, pulses>>
vars == <<server, loadVars, dataVars, viewVars, layerVars, modeVars, tileVars,
          uploadVars, csvVars, mapVars>>

----------------------------------------------------------------------------
(* Bounds of the model.                                                    *)

\* longest data part of a CSV text enumerated for parseCSV
MaxBodyLen == 5
\* most records the upload flow appends to defectsData
MaxUploads == 2
\* most interval timers alive (critical mode stops being activated there)
MaxTimers == 4
\* most processing timeouts pending at once
MaxHeat == 3

\* the longest worst-roads list served
MaxRoads == 12

MaxTimeouts == 1

\* most interval callbacks run since the timers were started
MaxTicks == 3

\* most interval timers alive on the page followed through every handler
PageTimers == 1

\* most records appended by the upload flow on that page
PageUploads == 1

----------------------------------------------------------------------------
(* JavaScript values.                                                      *)

Str(s) == [kind |-> "string", val |-> s]
Num(n) == [kind |-> "number", val |-> n]
NaN == [kind |-> "NaN"]
Infinity == [kind |-> "Infinity"]
Undefined == [kind |-> "undefined"]
Null == [kind |-> "null"]
Arr(a) == [kind |-> "array", val |-> a]
Obj(o) == [kind |-> "object", val |-> o]

CharAt(s, i) == SubSeq(s, i, i)

IsWhiteSpace(c) == c \in {" ", "\t", "\n", "\r"}

RECURSIVE trimStart(_)
trimStart(s) ==
    IF s # "" /\ IsWhiteSpace(CharAt(s, 1))
    THEN trimStart(SubSeq(s, 2, Len(s)))
    ELSE s

RECURSIVE trimEnd(_)
trimEnd(s) ==
    IF s # "" /\ IsWhiteSpace(CharAt(s, Len(s)))
    THEN trimEnd(SubSeq(s, 1, Len(s) - 1))
    ELSE s

\* String.prototype.trim
trim(s) == trimEnd(trimStart(s))

\* String.prototype.indexOf for a one-character separator, 1-based, 0 if absent
indexOf(s, sep) ==
    IF \E i \in 1..Len(s) : CharAt(s, i) = sep
    THEN CHOOSE i \in 1..Len(s) :
            /\ CharAt(s, i) = sep
            /\ \A j \in 1..(i - 1) : CharAt(s, j) # sep
    ELSE 0

\* String.prototype.split for a one-character separator
RECURSIVE split(_, _)
split(s, sep) ==
    LET i == indexOf(s, sep)
    IN  IF i = 0
        THEN <<s>>
        ELSE <<SubSeq(s, 1, i - 1)>> \o split(SubSeq(s, i + 1, Len(s)), sep)

----------------------------------------------------------------------------
(* Numbers read from strings.  The model's strings carry no exponent part  *)
(* and no hexadecimal prefix, and at most three fraction digits.           *)

NegInfinity == [kind |-> "-Infinity"]

IsDigit(c) == c \in {"0", "1", "2", "3", "4", "5", "6", "7", "8", "9"}

DigitVal(c) ==
    CASE c = "0" -> 0 [] c = "1" -> 1 [] c = "2" -> 2 [] c = "3" -> 3
      [] c = "4" -> 4 [] c = "5" -> 5 [] c = "6" -> 6 [] c = "7" -> 7
      [] c = "8" -> 8 [] c = "9" -> 9

\* first position from i on that holds no digit
RECURSIVE digitsEnd(_, _)
digitsEnd(s, i) ==
    IF i <= Len(s) /\ IsDigit(CharAt(s, i)) THEN digitsEnd(s, i + 1) ELSE i

\* the integer written by the digits s[i..j-1]
RECURSIVE digitsValue(_, _, _)
digitsValue(s, i, j) ==
    IF j <= i THEN 0
    ELSE 10 * digitsValue(s, i, j - 1) + DigitVal(CharAt(s, j - 1))

\* thousandths written by the fraction digits s[i..j-1]
fractionValue(s, i, j) ==
    LET d(k) == IF i + k < j THEN DigitVal(CharAt(s, i + k)) ELSE 0
    IN  100 * d(0) + 10 * d(1) + d(2)

\* the longest prefix of s that is a StrDecimalLiteral: [ok, val, end], end
\* being the first position after it
decimalPrefix(s) ==
    LET neg == s # "" /\ CharAt(s, 1) = "-"
        p == IF s # "" /\ CharAt(s, 1) \in {"+", "-"} THEN 2 ELSE 1
        e1 == digitsEnd(s, p)
        dot == e1 <= Len(s) /\ CharAt(s, e1) = "."
        e2 == IF dot THEN digitsEnd(s, e1 + 1) ELSE e1
        mag == 1000 * digitsValue(s, p, e1)
                 + (IF dot THEN fractionValue(s, e1 + 1, e2) ELSE 0)
    IN  IF Len(s) >= p + 7 /\ SubSeq(s, p, p + 7) = "Infinity"
        THEN [ok |-> TRUE, val |-> IF neg THEN NegInfinity ELSE Infinity,
              end |-> p + 8]
        ELSE IF e1 > p \/ (dot /\ e2 > e1 + 1)
        THEN [ok |-> TRUE, val |-> Num(IF neg THEN 0 - mag ELSE mag), end |-> e2]
        ELSE [ok |-> FALSE, val |-> NaN, end |-> 1]

\* Number.prototype.toString of a finite number held in thousandths
NumToString(n) ==
    LET a == IF n < 0 THEN 0 - n ELSE n
        f == a % 1000
        d1 == ToString(f \div 100)
        d2 == ToString((f \div 10) % 10)
        d3 == ToString(f % 10)
        frac == IF f = 0 THEN ""
                ELSE IF f % 10 # 0 THEN "." \o d1 \o d2 \o d3
                ELSE IF f % 100 # 0 THEN "." \o d1 \o d2
                ELSE "." \o d1
    IN  (IF n < 0 THEN "-" ELSE "") \o ToString(a \div 1000) \o frac

\* ToString of a primitive value
ToStr(v) ==
    CASE v.kind = "string" -> v.val
      [] v.kind = "number" -> NumToString(v.val)
      [] v.kind = "function" ->
            "function " \o v.val \o "() { [native code] }"
      [] OTHER -> v.kind

\* parseFloat: ToString of the argument, leading white space dropped, then the
\* longest numeric prefix; NaN when there is none
parseFloat(v) ==
    LET lit == decimalPrefix(trimStart(ToStr(v)))
    IN  IF lit.ok THEN lit.val ELSE NaN

\* ToNumber, as the relational operators apply it: a string must be numeric as
\* a whole, the empty string is 0
ToNumber(v) ==
    CASE v.kind = "string" ->
            LET t == trim(v.val)
                lit == decimalPrefix(t)
            IN  IF t = "" THEN Num(0)
                ELSE IF lit.ok /\ lit.end = Len(t) + 1 THEN lit.val
                ELSE NaN
      [] v.kind = "null" -> Num(0)
      [] v.kind \in {"number", "NaN", "Infinity", "-Infinity"} -> v
      [] OTHER -> NaN

isNaN(x) == x.kind = "NaN"

\* x >= n for a number x and a finite n in thousandths
AtLeast(x, n) ==
    CASE x.kind = "number" -> x.val >= n
      [] x.kind = "Infinity" -> TRUE
      [] OTHER -> FALSE

\* ToBoolean
Truthy(v) ==
    CASE v.kind = "string" -> v.val # ""
      [] v.kind = "number" -> v.val # 0
      [] v.kind \in {"NaN", "undefined", "null"} -> FALSE
      [] OTHER -> TRUE

\* a || b
Or(a, b) == IF Truthy(a) THEN a ELSE b

\* o.k; reading a property of null or undefined throws (see CanRead)
Get(o, k) ==
    IF o.kind = "object" /\ k \in DOMAIN o.val THEN o.val[k] ELSE Undefined

CanRead(o) == o.kind \notin {"null", "undefined"}

\* d.k for a row d of defectsData
Field(d, k) == IF k \in DOMAIN d THEN d[k] ELSE Undefined


----------------------------------------------------------------------------
(* parseCSV (src/app.js 131-176).                                          *)

\* a character loop that ends the field at every comma, quoted or not
RECURSIVE parseLineNaive(_, _, _, _, _)
parseLineNaive(line, i, values, current, inQuotes) ==
    IF i > Len(line)
    THEN Append(values, trim(current))
    ELSE LET char == CharAt(line, i)
         IN  IF char = "\""
             THEN parseLineNaive(line, i + 1, values, current, ~inQuotes)
             ELSE IF char = ","
                  THEN parseLineNaive(line, i + 1, Append(values, trim(current)),
                                      "", inQuotes)
                  ELSE parseLineNaive(line, i + 1, values, current \o char,
                                      inQuotes)

\* a character loop in which every double quote toggles quoted mode
RECURSIVE parseLineNoEscape(_, _, _, _, _)
parseLineNoEscape(line, i, values, current, inQuotes) ==
    IF i > Len(line)
    THEN Append(values, trim(current))
    ELSE LET char == CharAt(line, i)
         IN  IF char = "\""
             THEN parseLineNoEscape(line, i + 1, values, current, ~inQuotes)
             ELSE IF char = "," /\ ~inQuotes
                  THEN parseLineNoEscape(line, i + 1,
                                         Append(values, trim(current)), "",
                                         inQuotes)
                  ELSE parseLineNoEscape(line, i + 1, values, current \o char,
                                         inQuotes)

\* the character loop of one data line, from position i on
RECURSIVE parseLineFrom(_, _, _, _, _)
parseLineFrom(line, i, values, current, inQuotes) ==
    IF i > Len(line)
    THEN Append(values, trim(current))
    ELSE LET char == CharAt(line, i)
             nextChar == IF i + 1 <= Len(line) THEN CharAt(line, i + 1) ELSE ""
         IN  IF char = "\""
             THEN IF inQuotes /\ nextChar = "\""
                  THEN parseLineFrom(line, i + 2, values, current \o "\"", inQuotes)
                  ELSE parseLineFrom(line, i + 1, values, current, ~inQuotes)
             ELSE IF char = "," /\ ~inQuotes
                  THEN parseLineFrom(line, i + 1, Append(values, trim(current)),
                                     "", inQuotes)
                  ELSE parseLineFrom(line, i + 1, values, current \o char, inQuotes)

\* the values array of one data line
parseLine(line) == parseLineFrom(line, 1, <<>>, "", FALSE)

\* lines[0].split(',').map(h => h.trim())
csvHeaders(lines) ==
    LET raw == split(lines[1], ",")
    IN  [i \in 1..Len(raw) |-> trim(raw[i])]

\* obj[header] = values[i] || '' for every header, in order (a later header of
\* the same name overwrites an earlier one)
rowObject(headers, values) ==
    [h \in {headers[i] : i \in 1..Len(headers)} |->
        LET i == CHOOSE k \in 1..Len(headers) :
                    /\ headers[k] = h
                    /\ \A m \in (k + 1)..Len(headers) : headers[m] # h
        IN  IF i <= Len(values) THEN Str(values[i]) ELSE Str("")]

\* row[headers[0]] && row[headers[0]] !== ''
rowKept(headers, row) == row[headers[1]].val # ""

csvLines(text) == split(trim(text), "\n")

parseCSV(text) ==
    LET lines == csvLines(text)
        headers == csvHeaders(lines)
        rows == [i \in 1..(Len(lines) - 1) |->
                    rowObject(headers, parseLine(lines[i + 1]))]
    IN  SelectSeq(rows, LAMBDA row : rowKept(headers, row))

----------------------------------------------------------------------------
(* The view initializers of src/app.js.  Popup texts and the random repair *)
(* cost of a marker are left out; labels are transliterated to ASCII.      *)

DEFECT_COLORS ==
    [pothole |-> "#ef4444", longitudinal_crack |-> "#f59e0b",
     transverse_crack |-> "#10b981", alligator_crack |-> "#8b5cf6",
     other_damage |-> "#6b7280"]

DEFECT_NAMES ==
    [pothole |-> "Yama", longitudinal_crack |-> "Prodolnaya treshchina",
     transverse_crack |-> "Poperechnaya treshchina",
     alligator_crack |-> "Setka treshchin", other_damage |-> "Drugie defekty"]

\* a built-in function, by name
Fn(name) == [kind |-> "function", val |-> name]

\* the methods every object literal inherits from Object.prototype
ObjectPrototype ==
    {"constructor", "toString", "valueOf", "hasOwnProperty", "isPrototypeOf",
     "propertyIsEnumerable", "toLocaleString"}

\* what an object literal without own property key gives for literal[key]
inherited(key) ==
    IF key \in ObjectPrototype
    THEN Fn(IF key = "constructor" THEN "Object" ELSE key)
    ELSE Undefined

\* table[key], the key converted to a property name: an own property of the
\* object literal, else an inherited one, else undefined
Lookup(table, key) ==
    IF ToStr(key) \in DOMAIN table THEN Str(table[ToStr(key)])
    ELSE inherited(ToStr(key))

isNumber(v) == v.kind \in {"number", "NaN", "Infinity", "-Infinity"}

\* Number.prototype.toFixed(1)
toFixed1(x) ==
    IF x.kind # "number" THEN x.kind
    ELSE LET a == IF x.val < 0 THEN 0 - x.val ELSE x.val
             tenths == (a + 50) \div 100
         IN  (IF x.val < 0 /\ tenths # 0 THEN "-" ELSE "")
                \o ToString(tenths \div 10) \o "." \o ToString(tenths % 10)

\* the dashboard fields before any script wrote them
NoDashboard ==
    [totalDefects |-> "", criticalDefects |-> "", roadQuality |-> "",
     repairCost |-> ""]

\* updateStats as first declared (src/app.js 179-197); the later declaration of
\* the same name replaces it, so no call reaches this one
updateStats1 ==
    LET stats == Or(Get(statsData, "total_stats"), statsData)
        totalDefects == Or(Get(stats, "total_defects"), Num(0))
        criticalDefects == Or(Get(stats, "critical_defects"), Num(0))
        half == ToNumber(totalDefects).val \div 2
        quality == IF 100000 - half > 0 THEN 100000 - half ELSE 0
        cost == ToNumber(Or(Get(stats, "total_repair_cost"), Num(0))).val
    IN  [totalDefects |-> ToStr(totalDefects),
         criticalDefects |-> ToStr(criticalDefects),
         roadQuality |-> ToString((quality + 500) \div 1000),
         repairCost |-> toFixed1(Num(cost \div 1000000)) \o "M KGS"]

\* d.severity >= 7 of the second updateStats
statsCritical(d) == AtLeast(ToNumber(Field(d, "severity")), 7000)

\* updateStats as declared last (src/app.js 704-711): the function every call
\* of updateStats runs
updateStats ==
    [dashboard EXCEPT
        !.totalDefects = ToString(Len(defectsData)),
        !.criticalDefects =
            ToString(Len(SelectSeq(defectsData, statsCritical)))]

\* d.defect_type || 'unknown', as a property name
typeOf(d) == ToStr(Or(Field(d, "defect_type"), Str("unknown")))

\* v + 1: a sum of numbers, else the concatenation of the two as strings
plusOne(v) ==
    IF v.kind = "number" THEN Num(v.val + 1000) ELSE Str(ToStr(v) \o "1")

\* defectCounts after the first n records: its own keys in insertion order and
\* the value of each.  defectCounts[type] of a type not yet counted reads
\* through to Object.prototype.
RECURSIVE defectCounts(_, _)
defectCounts(data, n) ==
    IF n = 0 THEN [keys |-> <<>>, counts |-> <<>>]
    ELSE LET prev == defectCounts(data, n - 1)
             type == typeOf(data[n])
             at == {i \in 1..Len(prev.keys) : prev.keys[i] = type}
         IN  IF at = {}
             THEN [keys |-> Append(prev.keys, type),
                   counts |-> Append(prev.counts,
                                        plusOne(Or(inherited(type), Num(0))))]
             ELSE [keys |-> prev.keys,
                   counts |-> [i \in 1..Len(prev.counts) |->
                                 IF i \in at
                                 THEN plusOne(Or(prev.counts[i], Num(0)))
                                 ELSE prev.counts[i]]]

NoChart == [labels |-> <<>>, data |-> <<>>, backgroundColor |-> <<>>]

createDefectChart ==
    LET c == defectCounts(defectsData, Len(defectsData))
    IN  [labels |-> [i \in 1..Len(c.keys) |->
                        ToStr(Or(Lookup(DEFECT_NAMES, Str(c.keys[i])),
                                 Str(c.keys[i])))],
         data |-> c.counts,
         backgroundColor |-> [i \in 1..Len(c.keys) |->
                        ToStr(Or(Lookup(DEFECT_COLORS, Str(c.keys[i])),
                                 Str("#6b7280")))]]

\* a slice that keeps every entry
TopRoadsAll == MaxRoads + 1

\* worstRoadsData.slice(0, 10)
TopRoads == 10

\* classes whose lower boundaries belong to the class below
priorityOfStrict(road) ==
    IF AtLeast(ToNumber(Get(road, "priority_score")), 8001) THEN "critical"
    ELSE IF AtLeast(ToNumber(Get(road, "priority_score")), 6001) THEN "high"
    ELSE "medium"

\* the priority class of a worst-roads entry
priorityOf(road) ==
    IF AtLeast(ToNumber(Get(road, "priority_score")), 8000) THEN "critical"
    ELSE IF AtLeast(ToNumber(Get(road, "priority_score")), 6000) THEN "high"
    ELSE "medium"

\* building the list item of entry number i (index + 1) throws a TypeError
roadThrows(road) ==
    \/ ~CanRead(road)
    \/ ~isNumber(Get(road, "avg_severity"))
    \/ ~isNumber(Get(road, "priority_score"))

roadItem(road, i) ==
    [name |-> ToStr(Or(Get(road, "rank"), Num(1000 * i))) \o ". "
                \o ToStr(Get(road, "street_name")),
     defects |-> ToStr(Or(Get(road, "defect_count"),
                          Or(Get(road, "total_defects"), Num(0)))),
     severity |-> toFixed1(Get(road, "avg_severity")),
     priority |-> toFixed1(Get(road, "priority_score")),
     badge |-> priorityOf(road),
     street_name |-> Get(road, "street_name")]

\* createWorstRoadsList: the container is emptied, then the items are appended
\* one by one until one throws
createWorstRoadsList ==
    IF worstRoadsData.kind # "array"
    THEN [items |-> <<>>, threw |-> TRUE]
    ELSE LET all == worstRoadsData.val
             n == IF Len(all) < TopRoads THEN Len(all) ELSE TopRoads
             bad == {i \in 1..n : roadThrows(all[i])}
             m == IF bad = {} THEN n
                  ELSE (CHOOSE i \in bad : \A j \in bad : i <= j) - 1
         IN  [items |-> [i \in 1..m |-> roadItem(all[i], i)],
              threw |-> bad # {}]

\* a radius kept within 6 and 10
markerRadiusClamped(severity) ==
    IF severity.kind = "number"
    THEN Num(60000 + 4 * (IF severity.val > 10000 THEN 10000
                          ELSE IF severity.val < 0 THEN 0 ELSE severity.val))
    ELSE Num(100000)

\* ten times the radius 6 + (severity / 10) * 4 of a marker
markerRadius10(severity) ==
    IF severity.kind = "number" THEN Num(60000 + 4 * severity.val)
    ELSE severity

\* the circle marker createMarkers builds for a record
defectMarker(defect) ==
    [lat |-> parseFloat(Field(defect, "lat")),
     lon |-> parseFloat(Field(defect, "lon")),
     radius10 |-> markerRadius10(Or(parseFloat(Field(defect, "severity")),
                                    Num(0))),
     fillColor |-> ToStr(Or(Lookup(DEFECT_COLORS, Field(defect, "defect_type")),
                            Str("#6b7280")))]

\* if (isNaN(lat) || isNaN(lon)) return
skipsRecord(defect) ==
    \/ isNaN(parseFloat(Field(defect, "lat")))
    \/ isNaN(parseFloat(Field(defect, "lon")))

\* the markers added for the first n records of data
RECURSIVE markersOf(_, _)
markersOf(data, n) ==
    IF n = 0 THEN <<>>
    ELSE IF skipsRecord(data[n]) THEN markersOf(data, n - 1)
    ELSE Append(markersOf(data, n - 1), defectMarker(data[n]))

\* createMarkers: markersLayer after clearLayers and the loop
createMarkers == markersOf(defectsData, Len(defectsData))

\* a normalisation that hands every element on as it came
heatPointKeeps(point) == point

\* createHeatmap: the point list handed to L.heatLayer
heatPoint(point) ==
    IF point.kind = "array" THEN point
    ELSE Arr(<<Get(point, "lat"), Get(point, "lon"), Get(point, "intensity")>>)

createHeatmap(heatmapData) ==
    IF heatmapData.kind # "array"
       \/ \E i \in 1..Len(heatmapData.val) : ~CanRead(heatmapData.val[i])
    THEN [layer |-> Null, threw |-> TRUE]
    ELSE [layer |-> [kind |-> "heatLayer",
                     val |-> [i \in 1..Len(heatmapData.val) |->
                                heatPoint(heatmapData.val[i])]],
          threw |-> FALSE]

\* parseFloat(d.severity) >= 7 of showCriticalDefects
layerCritical(d) == AtLeast(parseFloat(Field(d, "severity")), 7000)

\* the pulsating marker of a critical record; ten times 8 + (severity / 10) * 6
criticalMarker(defect) ==
    [lat |-> parseFloat(Field(defect, "lat")),
     lon |-> parseFloat(Field(defect, "lon")),
     radius10 |-> LET severity == parseFloat(Field(defect, "severity"))
                  IN  IF severity.kind = "number"
                      THEN Num(80000 + 6 * severity.val)
                      ELSE severity,
     fillColor |-> "#ef4444"]

\* the markers added to layer for the first n records of data
RECURSIVE criticalMarkersOf(_, _, _)
criticalMarkersOf(layer, data, n) ==
    IF n = 0 THEN layer
    ELSE IF skipsRecord(data[n]) THEN criticalMarkersOf(layer, data, n - 1)
    ELSE Append(criticalMarkersOf(layer, data, n - 1), criticalMarker(data[n]))

\* showCriticalDefects without its clearLayers call
showCriticalDefectsKeeps ==
    LET criticalDefects == SelectSeq(defectsData, layerCritical)
    IN  criticalMarkersOf(criticalLayer, criticalDefects, Len(criticalDefects))

\* showCriticalDefects: criticalLayer after clearLayers, the filter and the loop
showCriticalDefects ==
    LET criticalDefects == SelectSeq(defectsData, layerCritical)
    IN  criticalMarkersOf(<<>>, criticalDefects, Len(criticalDefects))

----------------------------------------------------------------------------
(* What the servers and the user can send.                                 *)

DefectsHeader == "lat,lon,defect_type,severity,street_name\n"

\* bodies of data/defects.csv
TextTwoRows ==
    DefectsHeader \o "42.87,74.56,pothole,7.0,\"Main, St\"\n"
                  \o "42.88,74.57,rut,6.999,Side\n"

TextOddFields ==
    DefectsHeader \o "Infinity,74.56,pothole,8abc,Main\n"
                  \o "42.9,,transverse_crack,9.5,Side"

RoadMain ==
    Obj([rank |-> Num(1000), street_name |-> Str("Main, St"),
         defect_count |-> Num(3000), avg_severity |-> Num(7500),
         priority_score |-> Num(8000)])

RoadSide ==
    Obj([street_name |-> Str("Side"), total_defects |-> Num(2000),
         avg_severity |-> Num(5250), priority_score |-> Num(6000)])

\* an entry without avg_severity
RoadBare == Obj([street_name |-> Str("Side"), priority_score |-> Num(9000)])

StatsExample ==
    Obj([total_defects |-> Num(138000), critical_defects |-> Num(20000),
         total_repair_cost |-> Num(1500000000)])

HeatTuples == Arr(<<Arr(<<Num(1000), Num(2000), Num(3000)>>)>>)

HeatObjects ==
    Arr(<<Obj([lat |-> Num(1000), lon |-> Num(2000), intensity |-> Num(3000)])>>)

\* the four files of a deployment: the CSV text and the parsed JSON bodies
Sites ==
    { [defects |-> TextTwoRows,
       worstRoads |-> Obj([worst_roads |-> Arr(<<RoadMain, RoadSide>>)]),
       stats |-> Obj([total_stats |-> StatsExample]),
       heatmap |-> Obj([heatmap_data |-> HeatTuples])],
      [defects |-> TextOddFields,
       worstRoads |-> Arr(<<RoadSide, RoadMain>>),
       stats |-> StatsExample,
       heatmap |-> HeatObjects],
      [defects |-> TextTwoRows,
       worstRoads |-> Arr(<<RoadMain, RoadBare>>),
       stats |-> StatsExample,
       heatmap |-> HeatTuples],
      [defects |-> DefectsHeader,
       worstRoads |-> Arr(<<RoadMain>>),
       stats |-> StatsExample,
       heatmap |-> Obj([points |-> HeatTuples])],
      [defects |-> TextTwoRows,
       worstRoads |-> Null,
       stats |-> StatsExample,
       heatmap |-> HeatTuples] }

\* e.latlng of a click on the map
ClickPoints == { [lat |-> Num(42870), lng |-> Num(74590)] }

\* 7.5 + Math.random() * 2
UploadSeverities == { Num(8250) }

DEMO_PHOTOS ==
    << [name |-> "demo_diverse_defects.jpg",
        annotatedPath |-> "ml/data/demo_annotated/demo_diverse_defects.jpg",
        defectsCount |-> 5,
        classes |-> <<"pothole", "transverse_crack", "alligator_crack">>],
       [name |-> "demo_many_potholes.jpg",
        annotatedPath |-> "ml/data/demo_annotated/demo_many_potholes.jpg",
        defectsCount |-> 17,
        classes |-> <<"pothole">>] >>

----------------------------------------------------------------------------
(* loadData (src/app.js 63-128).  pc is where the function is suspended:   *)
(* "response" at await fetch(...), "body" at await response.text() or      *)
(* .json(); the fetch it waits for is the last of fetches.                 *)

FILES == <<"defects.csv", "worst_roads.json", "stats.json", "heatmap.json">>

AllViews ==
    <<"updateStats", "createDefectChart", "createWorstRoadsList",
      "createMarkers", "createHeatmap", "addLegend">>

\* a loader that does not look at response.ok
statusIgnored(ok) == FALSE

\* if (!response.ok) throw ...
statusThrows(ok) == ~ok

\* a catch block that shows nothing
CatchSilent(message) ==
    /\ pc' = "caught"
    /\ UNCHANGED alerts

\* the catch block: one alert, and loadData returns
Catch(message) ==
    /\ pc' = "caught"
    /\ alerts' = Append(alerts, message)

\* a loader that asks for the first file again
FetchAgain(k) ==
    /\ fetches' = Append(fetches, FILES[1])
    /\ pc' = "response"
    /\ UNCHANGED alerts

\* the next fetch is issued and loadData suspends on it
Fetch(k) ==
    /\ fetches' = Append(fetches, FILES[k])
    /\ pc' = "response"
    /\ UNCHANGED alerts

appVars == <<server, layerVars, modeVars, tileVars, uploadVars, csvVars, mapVars>>

\* the promise of the pending fetch rejects (network error)
FetchRejects ==
    /\ pc = "response"
    /\ Catch("Failed to fetch")
    /\ UNCHANGED <<fetches, responses, dataVars, viewVars, appVars>>

\* the pending fetch resolves with a response of the given ok flag
FetchResolves(ok) ==
    /\ pc = "response"
    /\ responses' = Append(responses, ok)
    /\ IF statusThrows(ok)
       THEN Catch("Failed to load " \o FILES[Len(fetches)])
       ELSE pc' = "body" /\ UNCHANGED alerts
    /\ UNCHANGED <<fetches, dataVars, viewVars, appVars>>

\* reading the body rejects (the stream fails, or the JSON does not parse)
BodyRejects ==
    /\ pc = "body"
    /\ Catch("Unexpected token")
    /\ UNCHANGED <<fetches, responses, dataVars, viewVars, appVars>>

\* defects.csv arrives
DefectsBody(text) ==
    /\ pc = "body" /\ Len(fetches) = 1
    /\ defectsData' = parseCSV(text)
    /\ Fetch(2)
    /\ UNCHANGED <<responses, worstRoadsData, statsData, viewVars, appVars>>

\* worst_roads.json arrives
WorstRoadsBody(worstRoadsJson) ==
    /\ pc = "body" /\ Len(fetches) = 2
    /\ IF CanRead(worstRoadsJson)
       THEN /\ worstRoadsData' = Or(Get(worstRoadsJson, "worst_roads"),
                                    worstRoadsJson)
            /\ Fetch(3)
       ELSE /\ Catch("Cannot read properties of null")
            /\ UNCHANGED <<fetches, worstRoadsData>>
    /\ UNCHANGED <<responses, defectsData, statsData, viewVars, appVars>>

\* stats.json arrives
StatsBody(statsJson) ==
    /\ pc = "body" /\ Len(fetches) = 3
    /\ statsData' = statsJson
    /\ Fetch(4)
    /\ UNCHANGED <<responses, defectsData, worstRoadsData, viewVars, appVars>>

\* the six view initializers, in order, up to the first throw; stats is the
\* dashboard the updateStats of the file writes
InitViewsWith(stats, heatmapData) ==
    LET roads == createWorstRoadsList
        heat == createHeatmap(heatmapData)
    IN  /\ dashboard' = stats
        /\ chart' = createDefectChart
        /\ worstRoads' = roads.items
        /\ IF roads.threw
           THEN /\ viewsDone' = SubSeq(AllViews, 1, 2)
                /\ Catch("Cannot read properties of undefined")
                /\ UNCHANGED <<markersLayer, heatmapLayer, overlays, legend>>
           ELSE /\ markersLayer' = createMarkers
                /\ overlays' = IF heatmapLayer # Null
                               THEN overlays \ {"heatmapLayer"}
                               ELSE overlays
                /\ IF heat.threw
                   THEN /\ viewsDone' = SubSeq(AllViews, 1, 4)
                        /\ Catch("heatmapData.map is not a function")
                        /\ UNCHANGED <<heatmapLayer, legend>>
                   ELSE /\ heatmapLayer' = heat.layer
                        /\ legend' = TRUE
                        /\ viewsDone' = AllViews
                        /\ pc' = "done"
                        /\ UNCHANGED alerts

\* lines 112-119 of src/app.js
InitViews(heatmapData) == InitViewsWith(updateStats, heatmapData)

\* heatmap.json arrives
HeatmapBody(heatmapJson) ==
    /\ pc = "body" /\ Len(fetches) = 4
    /\ IF CanRead(heatmapJson)
       THEN InitViews(Or(Get(heatmapJson, "heatmap_data"), heatmapJson))
       ELSE /\ Catch("Cannot read properties of null")
            /\ UNCHANGED <<viewVars, markersLayer, heatmapLayer, overlays>>
    /\ UNCHANGED <<server, fetches, responses, dataVars, criticalLayer, timers,
                   tileVars, uploadVars, csvVars, mapVars>>

----------------------------------------------------------------------------
(* loadData of src/frontend/app.js (49-96).  It differs from the loader of *)
(* src/app.js in three places: it does not look at response.ok, its        *)
(* parseCSV (99-111) splits at every comma and keeps every line, and its   *)
(* updateStats (114-133) is the one that reads statsData.  The lines that  *)
(* store worst_roads.json and stats.json and the catch block are the same. *)

\* parseCSV of src/frontend/app.js: obj[header.trim()] = values[i]?.trim()
frontendParseCSV(text) ==
    LET lines == split(trim(text), "\n")
        headers == split(lines[1], ",")
        names == {trim(headers[k]) : k \in 1..Len(headers)}
    IN  [i \in 1..(Len(lines) - 1) |->
            LET values == split(lines[i + 1], ",")
            IN  [h \in names |->
                   LET k == CHOOSE j \in 1..Len(headers) :
                               /\ trim(headers[j]) = h
                               /\ \A m \in (j + 1)..Len(headers) :
                                     trim(headers[m]) # h
                   IN  IF k <= Len(values) THEN Str(trim(values[k]))
                       ELSE Undefined]]

\* what a server sends with a non-success status: an error page as text, and
\* as JSON either nothing that parses (BodyRejects) or an error object
ErrorPage == "<html>404 Not Found</html>"

ErrorJson == Obj([error |-> Str("Not Found")])

\* the body of the response just received
frontendBody(payload, error) ==
    IF responses[Len(responses)] THEN payload ELSE error

\* the pending fetch resolves; the response is not inspected
frontendFetchResolves(ok) ==
    /\ pc = "response"
    /\ responses' = Append(responses, ok)
    /\ pc' = "body"
    /\ UNCHANGED <<alerts, fetches, dataVars, viewVars, appVars>>

\* defects.csv, or the page sent in its place, arrives
frontendDefectsBody(text) ==
    /\ pc = "body" /\ Len(fetches) = 1
    /\ defectsData' = frontendParseCSV(text)
    /\ Fetch(2)
    /\ UNCHANGED <<responses, worstRoadsData, statsData, viewVars, appVars>>

\* heatmap.json arrives: lines 75-88
frontendHeatmapBody(heatmapJson) ==
    /\ pc = "body" /\ Len(fetches) = 4
    /\ IF CanRead(heatmapJson)
       THEN InitViewsWith(updateStats1,
                          Or(Get(heatmapJson, "heatmap_data"), heatmapJson))
       ELSE /\ Catch("Cannot read properties of null")
            /\ UNCHANGED <<viewVars, markersLayer, heatmapLayer, overlays>>
    /\ UNCHANGED <<server, fetches, responses, dataVars, criticalLayer, timers,
                   tileVars, uploadVars, csvVars, mapVars>>

\* the steps of loadData of src/frontend/app.js
NextFrontend ==
    \/ FetchRejects
    \/ \E ok \in BOOLEAN : frontendFetchResolves(ok)
    \/ BodyRejects
    \/ frontendDefectsBody(frontendBody(server.defects, ErrorPage))
    \/ WorstRoadsBody(frontendBody(server.worstRoads, ErrorJson))
    \/ StatsBody(frontendBody(server.stats, ErrorJson))
    \/ frontendHeatmapBody(frontendBody(server.heatmap, ErrorJson))

----------------------------------------------------------------------------
(* Display-mode and tile-style buttons (src/app.js 452-499).               *)

BtnMarkers ==
    /\ overlays' = (overlays \cup {"markersLayer"})
                       \ {"heatmapLayer", "criticalLayer"}
    /\ UNCHANGED <<server, loadVars, dataVars, viewVars, layerVars, timers, tileVars,
                   uploadVars, csvVars, mapVars>>

BtnHeatmap ==
    /\ overlays' = ((overlays \ {"markersLayer"})
                       \cup (IF heatmapLayer # Null THEN {"heatmapLayer"} ELSE {}))
                       \ {"criticalLayer"}
    /\ UNCHANGED <<server, loadVars, dataVars, viewVars, layerVars, timers, tileVars,
                   uploadVars, csvVars, mapVars>>

\* the closure of one setInterval callback (lines 408-419): the radius it last
\* gave its marker and the direction, radii ten times over as in radius10
pulseOf(marker) ==
    [baseRadius10 |-> marker.radius10, currentRadius10 |-> marker.radius10,
     growing |-> TRUE]

\* x + d for a radius x and a finite d
plus(x, d) == IF x.kind = "number" THEN Num(x.val + d) ELSE x

\* x >= y of two radii, neither NaN
notBelow(x, y) ==
    CASE x.kind = "number" /\ y.kind = "number" -> x.val >= y.val
      [] x.kind = "Infinity" -> TRUE
      [] OTHER -> FALSE

\* one run of the callback: half a unit up until three units above the base
\* radius, then half a unit down until the base radius
pulseTick(p) ==
    IF p.growing
    THEN LET currentRadius == plus(p.currentRadius10, 5000)
         IN  [p EXCEPT !.currentRadius10 = currentRadius,
                       !.growing = ~notBelow(currentRadius,
                                             plus(p.baseRadius10, 30000))]
    ELSE LET currentRadius == plus(p.currentRadius10, -5000)
         IN  [p EXCEPT !.currentRadius10 = currentRadius,
                       !.growing = notBelow(p.baseRadius10, currentRadius)]

\* the callbacks timer p has run within its present period of twelve
ticksOf(p) ==
    IF p.currentRadius10.kind # "number" THEN (IF p.growing THEN 0 ELSE 1)
    ELSE LET steps == (p.currentRadius10.val - p.baseRadius10.val) \div 5000
         IN  IF p.growing THEN steps ELSE 12 - steps

RECURSIVE ticksRun(_, _)
ticksRun(ps, n) == IF n = 0 THEN 0 ELSE ticksRun(ps, n - 1) + ticksOf(ps[n])

\* the interval of timer i elapses
PulseTick(i) ==
    /\ ticksRun(pulses, Len(pulses)) < MaxTicks
    /\ pulses' = [pulses EXCEPT ![i] = pulseTick(pulses[i])]
    /\ UNCHANGED <<server, loadVars, dataVars, viewVars, layerVars, modeVars,
                   tileVars, uploadVars, csvVars, mapView>>

\* the callbacks alive once the earlier ones were cleared and these started
setIntervalCleared(started) == started

\* the callbacks alive once these are started: clearInterval is called nowhere
setInterval(started) == pulses \o started

\* every marker showCriticalDefects adds starts one setInterval timer, and
\* nothing clears a timer
BtnCritical ==
    /\ timers + Len(showCriticalDefects) <= MaxTimers
    /\ criticalLayer' = showCriticalDefects
    /\ pulses' = setInterval([i \in 1..Len(criticalLayer') |->
                                pulseOf(criticalLayer'[i])])
    /\ timers' = Len(pulses')
    /\ overlays' = (overlays \ {"markersLayer", "heatmapLayer"})
                       \cup {"criticalLayer"}
    /\ UNCHANGED <<server, loadVars, dataVars, viewVars, markersLayer,
                   heatmapLayer, tileVars, uploadVars, csvVars, mapView>>

StyleStreets ==
    /\ tiles' = (tiles \ {currentTileLayer}) \cup {"streets"}
    /\ currentTileLayer' = "streets"
    /\ UNCHANGED <<server, loadVars, dataVars, viewVars, layerVars, modeVars,
                   uploadVars, csvVars, mapVars>>

\* a handler that also goes back to the markers overlay
StyleSatelliteResets ==
    /\ tiles' = (tiles \ {currentTileLayer}) \cup {"satellite"}
    /\ currentTileLayer' = "satellite"
    /\ overlays' = {"markersLayer"}
    /\ UNCHANGED <<server, loadVars, dataVars, viewVars, layerVars, timers,
                   uploadVars, csvVars, mapVars>>

\* a handler that leaves the previous tile layer on the map
StyleSatelliteKeeps ==
    /\ tiles' = tiles \cup {"satellite"}
    /\ currentTileLayer' = "satellite"
    /\ UNCHANGED <<server, loadVars, dataVars, viewVars, layerVars, modeVars,
                   uploadVars, csvVars, mapVars>>

\* a === b
StrictEquals(a, b) == a = b /\ a.kind # "NaN"

\* defectsData.find(d => d.street_name === road.street_name): the index of the
\* first such record, 0 when find returns undefined
findStreet(street_name) ==
    LET hits == {j \in 1..Len(defectsData) :
                   StrictEquals(Field(defectsData[j], "street_name"),
                                street_name)}
    IN  IF hits = {} THEN 0 ELSE CHOOSE j \in hits : \A k \in hits : j <= k

\* the view map.setView is called with: mapView is the view the page last
\* asked of the map, whatever Leaflet then makes of it
setView(center, zoom) == [center |-> center, zoom |-> zoom]

\* a click on item i of the worst-roads list
RoadItemClick(i) ==
    LET defect == findStreet(worstRoads[i].street_name)
    IN  IF defect = 0
        THEN UNCHANGED vars
        ELSE /\ mapView' = setView(
                    <<parseFloat(Field(defectsData[defect], "lat")),
                      parseFloat(Field(defectsData[defect], "lon"))>>, 16)
             /\ UNCHANGED <<server, loadVars, dataVars, viewVars, layerVars,
                            modeVars, tileVars, uploadVars, csvVars, pulses>>

StyleSatellite ==
    /\ tiles' = (tiles \ {currentTileLayer}) \cup {"satellite"}
    /\ currentTileLayer' = "satellite"
    /\ UNCHANGED <<server, loadVars, dataVars, viewVars, layerVars, modeVars,
                   uploadVars, csvVars, mapVars>>

----------------------------------------------------------------------------
(* Photo upload (src/app.js 551-702).                                      *)

NoUpload ==
    [selectedPhoto |-> Null, selectedLocation |-> Null, tempMarker |-> Null,
     isSelectingLocation |-> FALSE]

notUpload == <<server, loadVars, dataVars, viewVars, layerVars, modeVars,
               tileVars, csvVars, mapVars>>

\* the change handler of photoUpload: without a file it returns at once, with
\* one it shows the processing dialog and starts the 2-second timeout
PhotoUploadChange(file) ==
    /\ IF file
       THEN /\ timeouts < MaxTimeouts
            /\ processingModal' = "flex"
            /\ timeouts' = timeouts + 1
       ELSE UNCHANGED <<processingModal, timeouts>>
    /\ UNCHANGED <<uploadState, mapInstruction, confirmModal, tempMarkers,
                   notUpload>>

\* the timeout callback, with the demo photo Math.random picked
ProcessingTimeout(demoPhoto) ==
    /\ timeouts > 0
    /\ timeouts' = timeouts - 1
    /\ uploadState' = [uploadState EXCEPT !.selectedPhoto = demoPhoto,
                                          !.isSelectingLocation = TRUE]
    /\ processingModal' = "none"
    /\ mapInstruction' = "block"
    /\ UNCHANGED <<confirmModal, tempMarkers, notUpload>>

\* handlers that leave the previous temporary marker on the map
tempMarkersKept == tempMarkers

\* map.removeLayer(uploadState.tempMarker) when there is one
tempMarkersLeft == IF uploadState.tempMarker # Null THEN tempMarkers - 1
                   ELSE tempMarkers

\* the click handler of the map; showConfirmationDialog throws on a null photo
\* before it displays the dialog
MapClick(latlng) ==
    IF ~uploadState.isSelectingLocation
    THEN UNCHANGED vars
    ELSE /\ uploadState' = [uploadState EXCEPT
                               !.selectedLocation = latlng,
                               !.tempMarker = [kind |-> "marker", val |-> latlng]]
         /\ tempMarkers' = tempMarkersLeft + 1
         /\ mapInstruction' = "none"
         /\ confirmModal' = IF uploadState.selectedPhoto # Null THEN "flex"
                            ELSE confirmModal
         /\ UNCHANGED <<timeouts, processingModal, notUpload>>

\* the record confirmLocation appends
newDefect(location, photo, severity) ==
    [lat |-> location.lat, lon |-> location.lng,
     defect_type |-> Str(photo.classes[1]), severity |-> severity,
     confidence |-> Num(920), image_path |-> Str(photo.annotatedPath),
     street_name |-> Str("Zagruzhennoe foto"), district |-> Str("Novyj defekt")]

\* an insertion at the front of the array
unshift(array, element) == <<element>> \o array

\* array.push(element)
push(array, element) == Append(array, element)

\* a record of defectsData that confirmLocation appended
isUpload(d) == Field(d, "street_name") = Str("Zagruzhennoe foto")

\* confirmLocation.  Destructuring a null selectedLocation throws at line 629;
\* a null photo throws at line 642, after the temporary marker is removed.
\* createDefectMarker (line 654) is declared nowhere in the sources: the call
\* throws a ReferenceError, so the handler ends right after the push and
\* lines 655-670 (the new marker, updateStats, the dialog's closing, the
\* reset of uploadState) never run.
confirmLocation(severity) ==
    IF uploadState.selectedLocation = Null
    THEN UNCHANGED vars
    ELSE /\ uploadState' = [uploadState EXCEPT !.tempMarker = Null]
         /\ tempMarkers' = tempMarkersLeft
         /\ IF uploadState.selectedPhoto = Null
            THEN UNCHANGED defectsData
            ELSE /\ Len(SelectSeq(defectsData, isUpload)) < MaxUploads
                 /\ defectsData' = push(defectsData,
                        newDefect(uploadState.selectedLocation,
                                  uploadState.selectedPhoto, severity))
         /\ UNCHANGED <<server, loadVars, worstRoadsData, statsData, viewVars,
                        layerVars, modeVars, tileVars, csvVars, mapVars, timeouts,
                        processingModal, mapInstruction, confirmModal>>

cancelConfirm ==
    /\ uploadState' = [uploadState EXCEPT !.tempMarker = Null]
    /\ tempMarkers' = tempMarkersLeft
    /\ confirmModal' = "none"
    /\ mapInstruction' = "block"
    /\ UNCHANGED <<timeouts, processingModal, notUpload>>

cancelUpload ==
    /\ uploadState' = NoUpload
    /\ tempMarkers' = tempMarkersLeft
    /\ mapInstruction' = "none"
    /\ UNCHANGED <<timeouts, processingModal, confirmModal, notUpload>>

----------------------------------------------------------------------------
(* The page after the script has run to its end: loadData() (line 530) has *)
(* issued the first fetch and is suspended on it.                          *)

InitApp ==
    /\ pc = "response"
    /\ fetches = <<FILES[1]>>
    /\ responses = <<>>
    /\ alerts = <<>>
    /\ defectsData = <<>>
    /\ worstRoadsData = Arr(<<>>)
    /\ statsData = Obj(<<>>)
    /\ viewsDone = <<>>
    /\ dashboard = NoDashboard
    /\ chart = NoChart
    /\ worstRoads = <<>>
    /\ legend = FALSE
    /\ markersLayer = <<>>
    /\ heatmapLayer = Null
    /\ criticalLayer = <<>>
    /\ overlays = {"markersLayer"}
    /\ currentTileLayer = "streets"
    /\ tiles = {"streets"}
    /\ timers = 0
    /\ pulses = <<>>
    /\ mapView = setView(<<Num(42875), Num(74570)>>, 12)
    /\ uploadState = NoUpload
    /\ timeouts = 0
    /\ processingModal = "none"
    /\ mapInstruction = "none"
    /\ confirmModal = "none"
    /\ tempMarkers = 0

InitPage == server \in Sites /\ InitApp

Init ==
    /\ InitPage
    /\ csvPc = "off"
    /\ csvText = ""
    /\ csvValues = <<>>
    /\ csvRows = <<>>
    /\ csvFrontendRows = <<>>

\* the steps of loadData
NextLoad ==
    \/ FetchRejects
    \/ \E ok \in BOOLEAN : FetchResolves(ok)
    \/ BodyRejects
    \/ DefectsBody(server.defects)
    \/ WorstRoadsBody(server.worstRoads)
    \/ StatsBody(server.stats)
    \/ HeatmapBody(server.heatmap)

\* clicks on the display-mode buttons
NextMode ==
    \/ BtnMarkers
    \/ BtnHeatmap
    \/ BtnCritical

\* clicks on the tile-style buttons
NextTile ==
    \/ StyleStreets
    \/ StyleSatellite

\* the handlers of the upload flow
NextUpload ==
    \/ \E file \in BOOLEAN : PhotoUploadChange(file)
    \/ \E i \in 1..Len(DEMO_PHOTOS) : ProcessingTimeout(DEMO_PHOTOS[i])
    \/ \E latlng \in ClickPoints : MapClick(latlng)
    \/ \E severity \in UploadSeverities : confirmLocation(severity)
    \/ cancelConfirm
    \/ cancelUpload

\* the interval callbacks of the pulsating markers
NextPulse == \E i \in 1..Len(pulses) : PulseTick(i)

\* clicks on the items of the worst-roads list
NextRoads == \E i \in 1..Len(worstRoads) : RoadItemClick(i)

Next == NextLoad \/ NextMode \/ NextTile \/ NextUpload \/ NextPulse \/ NextRoads

Spec == Init /\ [][Next]_vars

\* the page while the upload flow is not used
SpecView == Init /\ [][NextLoad \/ NextMode \/ NextTile]_vars

\* the page while the mode and tile-style buttons are not used
SpecUpload == Init /\ [][NextLoad \/ NextUpload]_vars

\* loadData whose pending fetch or body read, once it can resolve, eventually
\* does; the clicks of the user are under no such obligation
SpecViewFair == SpecView /\ WF_vars(NextLoad)

\* the page of src/frontend/app.js
SpecFrontend == Init /\ [][NextFrontend \/ NextMode \/ NextTile]_vars

\* a body of data/defects.csv with two critical records
TextCritical ==
    DefectsHeader \o "42.87,74.56,pothole,9,Main\n"
                  \o "42.88,74.57,rut,7.5,\"Main, St\""

\* the deployments whose worst-roads list has two entries that both render
MapSites ==
    {s \in Sites \cup { [defects |-> TextCritical,
                         worstRoads |-> Arr(<<RoadSide, RoadMain>>),
                         stats |-> StatsExample,
                         heatmap |-> HeatTuples] } : LET roads == Or(Get(s.worstRoads, "worst_roads"), s.worstRoads)
                   IN  /\ roads.kind = "array"
                       /\ Len(roads.val) = 2
                       /\ \A i \in 1..2 : ~roadThrows(roads.val[i])}

InitMap ==
    /\ server \in MapSites
    /\ InitApp
    /\ csvPc = "off"
    /\ csvText = ""
    /\ csvValues = <<>>
    /\ csvRows = <<>>
    /\ csvFrontendRows = <<>>

\* the map with its buttons, its list and its timers, the upload flow unused
SpecMap == InitMap /\ [][NextLoad \/ NextMode \/ NextTile \/ NextPulse \/ NextRoads]_vars

\* every handler of the page, on the first of these deployments, while
\* critical mode is activated for no more than PageTimers markers and the
\* upload flow appends no more than PageUploads records
InitOne == InitMap /\ server.defects = TextTwoRows

NextPage ==
    \/ NextLoad
    \/ BtnMarkers
    \/ BtnHeatmap
    \/ BtnCritical /\ timers' <= PageTimers
    \/ NextTile
    \/ NextPulse
    \/ NextRoads
    \/ \E file \in BOOLEAN : PhotoUploadChange(file)
    \/ \E i \in 1..Len(DEMO_PHOTOS) : ProcessingTimeout(DEMO_PHOTOS[i])
    \/ \E latlng \in ClickPoints : MapClick(latlng)
    \/ \E severity \in UploadSeverities :
          /\ confirmLocation(severity)
          /\ Len(SelectSeq(defectsData', isUpload)) <= PageUploads
    \/ cancelConfirm
    \/ cancelUpload

SpecPage == InitOne /\ [][NextPage]_vars

----------------------------------------------------------------------------
(* loadData over a wider choice of files: heatmap payloads of both shapes,  *)
(* worst-roads lists of every length up to MaxRoads, entries with and       *)
(* without each count field, and defect types inside and outside the tables.*)

HeatTriples ==
    { <<Num(1000), Num(2000), Num(3000)>>, <<Num(42870), Num(74560), Num(700)>> }

\* an element of the heatmap array: a tuple or an object with named fields
HeatElements ==
    {Arr(t) : t \in HeatTriples}
        \cup {Obj([lat |-> t[1], lon |-> t[2], intensity |-> t[3]]) :
                 t \in HeatTriples}

RECURSIVE HeatArrays(_)
HeatArrays(n) ==
    IF n = 0 THEN {<<>>}
    ELSE LET shorter == HeatArrays(n - 1)
         IN  shorter \cup {Append(a, e) : a \in shorter, e \in HeatElements}

\* heatmap.json: the bare array, or the array under heatmap_data
HeatPayloads ==
    {Arr(a) : a \in HeatArrays(MaxHeat)}
        \cup {Obj([heatmap_data |-> Arr(a)]) : a \in HeatArrays(MaxHeat)}

\* entry number i of a long worst-roads list; the scores are not sorted
RoadAt(i) ==
    Obj([street_name |-> Str("Road " \o ToString(i)),
         defect_count |-> Num(1000 * i), avg_severity |-> Num(5000 + 100 * i),
         priority_score |-> Num(1000 * ((i * 7) % 10))])

RoadList(n) == Arr([i \in 1..n |-> RoadAt(i)])

\* entries with and without defect_count and total_defects
RoadCounts ==
    LET base == [street_name |-> Str("Side"), avg_severity |-> Num(5250),
                 priority_score |-> Num(6000)]
        with(r, k, S) == {[j \in DOMAIN r \cup {k} |->
                              IF j = k THEN v ELSE r[j]] : v \in S}
        counted == {base} \cup with(base, "defect_count", {Num(0), Num(3000)})
    IN  {Obj(r) : r \in counted}
          \cup {Obj(t) : t \in UNION {with(r, "total_defects", {Num(0), Num(5000)}) :
                                        r \in counted}}

RoadPayloads ==
    {RoadList(n) : n \in 0..MaxRoads}
        \cup {Obj([worst_roads |-> RoadList(n)]) : n \in {0, MaxRoads - 1}}
        \cup {Arr(<<RoadMain, e>>) : e \in RoadCounts}

\* three potholes and one defect of a type outside the tables
TextTypes ==
    DefectsHeader \o "42.87,74.56,pothole,7,Main\n"
                  \o "42.88,74.57,crater,5,Main\n"
                  \o "42.89,74.58,pothole,6,Side\n"
                  \o "42.90,74.59,pothole,8,Side"

\* a record without a type among typed ones
TextNoType ==
    DefectsHeader \o "42.87,74.56,,7,Main\n"
                  \o "42.88,74.57,alligator_crack,5,Main\n"
                  \o "42.89,74.58,,6,Side"

\* types named like the methods every object has
TextMethodTypes ==
    DefectsHeader \o "42.87,74.56,toString,7,Main\n"
                  \o "42.88,74.57,pothole,5,Main\n"
                  \o "42.89,74.58,toString,6,Side"

\* severities above and below the nominal range, missing and not numeric
TextSeverities ==
    DefectsHeader \o "42.87,74.56,pothole,15,Main\n"
                  \o "42.88,74.57,pothole,-2.5,Main\n"
                  \o "42.89,74.58,pothole,,Side\n"
                  \o "42.90,74.59,pothole,n/a,Side\n"
                  \o "42.91,74.60,pothole,10,Side\n"
                  \o ",74.61,pothole,3,Side"

TextPayloads ==
    {DefectsHeader, TextTwoRows, TextTypes, TextNoType, TextMethodTypes,
     TextSeverities}

DataSites ==
    LET base == [defects |-> TextTwoRows,
                 worstRoads |-> Arr(<<RoadMain, RoadSide>>),
                 stats |-> StatsExample,
                 heatmap |-> HeatTuples]
    IN  {[base EXCEPT !.heatmap = h] : h \in HeatPayloads}
          \cup {[base EXCEPT !.worstRoads = r] : r \in RoadPayloads}
          \cup {[base EXCEPT !.defects = t] : t \in TextPayloads}
          \cup Sites

InitData ==
    /\ server \in DataSites
    /\ InitApp
    /\ csvPc = "off"
    /\ csvText = ""
    /\ csvValues = <<>>
    /\ csvRows = <<>>
    /\ csvFrontendRows = <<>>

SpecData == InitData /\ [][NextLoad]_vars

----------------------------------------------------------------------------
(* parseCSV on its own: every header of CsvHeaders followed by every data  *)
(* part of at most MaxBodyLen characters of CsvAlphabet, and the examples. *)

CsvAlphabet == {"a", ",", "\"", " ", "\n"}

CsvHeaders == {"x", "x,y", "x,x"}

CsvExamples ==
    { "street_name,n\n\"Main, St\",1",
      "q\n\"He said \"\"hi\"\"\"",
      "", "x", "x,y,z\n1,2" }

RECURSIVE CsvBodies(_)
CsvBodies(n) ==
    IF n = 0 THEN {""}
    ELSE LET shorter == CsvBodies(n - 1)
         IN  shorter \cup {b \o c : b \in shorter, c \in CsvAlphabet}

CsvTexts ==
    {h \o "\n" \o b : h \in CsvHeaders, b \in CsvBodies(MaxBodyLen)}
        \cup CsvExamples

InitCSV ==
    /\ InitPage
    /\ server.defects = DefectsHeader
    /\ csvPc = "text"
    /\ csvText \in CsvTexts
    /\ csvValues = <<>>
    /\ csvRows = <<>>
    /\ csvFrontendRows = <<>>

\* parseCSV(csvText) of src/app.js and of src/frontend/app.js; csvValues keeps
\* the values array of every data line
ParseText ==
    /\ csvPc = "text"
    /\ csvPc' = "parsed"
    /\ csvRows' = parseCSV(csvText)
    /\ csvFrontendRows' = frontendParseCSV(csvText)
    /\ csvValues' = LET lines == csvLines(csvText)
                    IN  [i \in 1..(Len(lines) - 1) |-> parseLine(lines[i + 1])]
    /\ UNCHANGED <<csvText, server, loadVars, dataVars, viewVars, layerVars, modeVars,
                   tileVars, uploadVars, mapVars>>

NextCSV == ParseText

SpecCSV == InitCSV /\ [][NextCSV]_vars

----------------------------------------------------------------------------
(* Properties.                                                             *)

\* C1: whenever loadData has shown its alert, none of the six view
\* initializers has completed, and when loadData has finished without an
\* alert all six have completed.
C1_AllOrNothing ==
    /\ alerts # <<>> => viewsDone = <<>>
    /\ pc = "done" => viewsDone = AllViews /\ alerts = <<>>

\* C2: once the response of fetch number k has ok = false, the fetches issued
\* are exactly the first k (no later fetch, no retry), no view initializer has
\* run or rendered anything, and exactly one alert has been shown.
C2_StatusFailureIsFatal ==
    \A k \in 1..Len(responses) :
        ~responses[k] =>
            /\ fetches = SubSeq(FILES, 1, k)
            /\ viewsDone = <<>>
            /\ dashboard = NoDashboard /\ chart = NoChart /\ worstRoads = <<>>
            /\ markersLayer = <<>> /\ heatmapLayer = Null /\ legend = FALSE
            /\ Len(alerts) = 1

\* the worst-roads fetch has returned a non-success status
C2_Witness ==
    /\ Len(responses) = 2 /\ responses[1] /\ ~responses[2]
    /\ pc = "caught"

\* C3: exactly one of markersLayer, heatmapLayer and criticalLayer is attached
\* to the map in every reachable state.
C3_OneOverlay == Cardinality(overlays) = 1

\* C4: the tile layer starts as streets, and at all times exactly one tile
\* layer is attached to the map, it is currentTileLayer, and it is streets or
\* satellite.
C4_OneTileLayer ==
    /\ currentTileLayer = "streets"
    /\ [](/\ tiles = {currentTileLayer}
          /\ currentTileLayer \in {"streets", "satellite"})

\* satellite tiles are shown
C4_Witness == currentTileLayer = "satellite" /\ tiles = {"satellite"}

\* a record whose severity parses to at least 7 and whose coordinates both
\* parse to a number
C5_Qualifies(d) ==
    /\ AtLeast(parseFloat(Field(d, "severity")), 7000)
    /\ parseFloat(Field(d, "lat")) # NaN
    /\ parseFloat(Field(d, "lon")) # NaN

\* C5: every click on btnCritical leaves in criticalLayer exactly one marker
\* per record of the defectsData of that moment whose severity is at least 7
\* and whose lat and lon both parse to a number, in the order of the records,
\* and nothing else.
C5_CriticalRebuilt ==
    [][BtnCritical =>
        LET picked == SelectSeq(defectsData, C5_Qualifies)
        IN  /\ Len(criticalLayer') = Len(picked)
            /\ \A i \in 1..Len(picked) :
                 /\ criticalLayer'[i].lat = parseFloat(Field(picked[i], "lat"))
                 /\ criticalLayer'[i].lon = parseFloat(Field(picked[i], "lon"))
      ]_vars

\* critical mode has been activated at least twice over a collection with a
\* critical record
C5_Witness ==
    /\ "criticalLayer" \in overlays
    /\ Len(criticalLayer) = 1
    /\ timers >= 2

\* C6: the critical count updateStats writes to the dashboard is the number
\* of records showCriticalDefects treats as critical (severity, parsed as a
\* number, at least 7).
C6_SameCriticalTest ==
    pc = "done" =>
        dashboard.criticalDefects =
            ToString(Cardinality({i \in 1..Len(defectsData) :
                AtLeast(parseFloat(Field(defectsData[i], "severity")), 7000)}))

\* C7: every marker of markersLayer and of criticalLayer lies at finite
\* coordinates, and after createMarkers markersLayer has one marker per
\* record whose lat and lon both parse as finite numbers.
C7_FiniteCoordinates ==
    /\ \A i \in 1..Len(markersLayer) :
         markersLayer[i].lat.kind = "number" /\ markersLayer[i].lon.kind = "number"
    /\ \A i \in 1..Len(criticalLayer) :
         criticalLayer[i].lat.kind = "number" /\ criticalLayer[i].lon.kind = "number"
    /\ pc = "done" =>
         Len(markersLayer) = Cardinality({i \in 1..Len(defectsData) :
             /\ parseFloat(Field(defectsData[i], "lat")).kind = "number"
             /\ parseFloat(Field(defectsData[i], "lon")).kind = "number"})

\* C8: after a successful loadData the dashboard shows the counters of the
\* stats payload S: total_defects, critical_defects,
\* round(max(0, 100 - total_defects / 2)) and total_repair_cost / 1000000 with
\* one decimal and "M KGS".
C8_DashboardFromStats ==
    pc = "done" =>
        LET S == Or(Get(statsData, "total_stats"), statsData)
            total == Get(S, "total_defects").val
            quality == IF 100000 - total \div 2 > 0 THEN 100000 - total \div 2
                       ELSE 0
        IN  /\ dashboard.totalDefects = NumToString(total)
            /\ dashboard.criticalDefects
                 = NumToString(Get(S, "critical_defects").val)
            /\ dashboard.roadQuality = ToString((quality + 500) \div 1000)
            /\ dashboard.repairCost
                 = toFixed1(Num(Get(S, "total_repair_cost").val \div 1000000))
                     \o "M KGS"

\* C9: a run of confirmLocation that appends a record leaves the
\* confirmation dialog closed and uploadState reset (isSelectingLocation
\* false, selectedPhoto and selectedLocation null).
C9_ConfirmClosesAndResets ==
    [][((\E severity \in UploadSeverities : confirmLocation(severity))
          /\ defectsData' # defectsData) =>
        /\ confirmModal' = "none"
        /\ ~uploadState'.isSelectingLocation
        /\ uploadState'.selectedPhoto = Null
        /\ uploadState'.selectedLocation = Null
      ]_vars

\* the commas of a line that have an even number of double quotes before them
C10_OpenCommas(line) ==
    {p \in 1..Len(line) :
        /\ CharAt(line, p) = ","
        /\ Cardinality({q \in 1..(p - 1) : CharAt(line, q) = "\""}) % 2 = 0}

\* C10: every data line yields one field more than it has commas outside
\* quotes, and the line "Main, St",1 yields Main, St as its first field.
C10_QuotedCommaKeepsField ==
    csvPc = "parsed" =>
        /\ \A i \in 1..Len(csvValues) :
             Len(csvValues[i])
                = 1 + Cardinality(C10_OpenCommas(csvLines(csvText)[i + 1]))
        /\ csvText = "street_name,n\n\"Main, St\",1" =>
             csvValues = << <<"Main, St", "1">> >>

\* a parsed line with a comma inside quotes
C10_Witness ==
    /\ csvPc = "parsed"
    /\ \E i \in 1..Len(csvValues) :
         LET line == csvLines(csvText)[i + 1]
         IN  \E p \in 1..Len(line) :
               CharAt(line, p) = "," /\ p \notin C10_OpenCommas(line)

\* the number of double quotes in a string
C11_Quotes(s) == Cardinality({p \in 1..Len(s) : CharAt(s, p) = "\""})

\* the length of the run of double quotes that starts at position i
RECURSIVE C11_Run(_, _)
C11_Run(line, i) ==
    IF i > Len(line) \/ CharAt(line, i) # "\"" THEN 0
    ELSE 1 + C11_Run(line, i + 1)

\* the literal quotes a line asks for, run by run: a run of n quotes met while
\* a quote is open is n \div 2 escaped pairs and, for odd n, the closing quote;
\* a run met outside quotes is the opening quote followed by such a run
RECURSIVE C11_Literals(_, _, _)
C11_Literals(line, i, open) ==
    IF i > Len(line) THEN 0
    ELSE LET n == C11_Run(line, i)
             inner == IF open THEN n ELSE n - 1
         IN  IF n = 0 THEN C11_Literals(line, i + 1, open)
             ELSE inner \div 2 + C11_Literals(line, i + n, inner % 2 = 0)

\* C11: the fields of every data line hold one double quote for each pair of
\* adjacent quotes read while a quote is open and no other double quote; a
\* comma after such a pair is still inside the quote, and the line
\* "He said ""hi""" yields the field He said "hi".
C11_DoubledQuoteIsLiteral ==
    csvPc = "parsed" =>
        /\ \A i \in 1..Len(csvValues) :
             LET quotes == [k \in 1..Len(csvValues[i]) |->
                              C11_Quotes(csvValues[i][k])]
                 total[k \in 0..Len(quotes)] ==
                     IF k = 0 THEN 0 ELSE total[k - 1] + quotes[k]
             IN  total[Len(quotes)]
                    = C11_Literals(csvLines(csvText)[i + 1], 1, FALSE)
        /\ csvText = "q\n\"He said \"\"hi\"\"\""
              => csvValues = << <<"He said \"hi\"">> >>
        /\ csvText = "x\n\"\"\",a" => csvValues = << <<"\",a">> >>

\* a parsed line with an escaped quote in a field
C11_Witness ==
    /\ csvPc = "parsed"
    /\ \E i \in 1..Len(csvValues) :
         \E k \in 1..Len(csvValues[i]) : C11_Quotes(csvValues[i][k]) > 0

\* C12: every record of parseCSV has exactly one entry per header name, and
\* for every header position k the record of a line holds the line's k-th field
\* under the k-th header, or the empty string when the line has no k-th field.
C12_OneEntryPerHeader ==
    csvPc = "parsed" =>
        LET headers == csvHeaders(csvLines(csvText))
        IN  /\ \A j \in 1..Len(csvRows) :
                 DOMAIN csvRows[j] = {headers[k] : k \in 1..Len(headers)}
            /\ \A i \in 1..Len(csvValues) :
                 LET row == rowObject(headers, csvValues[i])
                 IN  \A k \in 1..Len(headers) :
                       row[headers[k]] =
                          Str(IF k <= Len(csvValues[i]) THEN csvValues[i][k]
                              ELSE "")

\* the data lines, by number, whose first field is not empty
C13_Kept ==
    SelectSeq([i \in 1..Len(csvValues) |-> i],
              LAMBDA i : csvValues[i][1] # "")

\* C13: parseCSV returns, in input order, one record for every data line whose
\* first field is not empty after trimming and none for the other lines; a
\* text of a header line only, or the empty text, gives no record.
C13_RowsWithFirstColumn ==
    csvPc = "parsed" =>
        /\ Len(csvRows) = Len(C13_Kept)
        /\ \A j \in 1..Len(C13_Kept) :
             j <= Len(csvRows) =>
                csvRows[j] = rowObject(csvHeaders(csvLines(csvText)),
                                       csvValues[C13_Kept[j]])
        /\ csvText \in {"", "x"} => csvRows = <<>>

\* the array A of a heatmap payload: under heatmap_data, or the payload itself
C14_Array(json) ==
    IF json.kind = "array" THEN json.val ELSE json.val.heatmap_data.val

\* the tuple [lat, lon, intensity] of an element of A
C14_Triple(e) ==
    IF e.kind = "array" THEN e.val
    ELSE <<e.val.lat, e.val.lon, e.val.intensity>>

\* C14: for a heatmap payload {heatmap_data: A} or A whose elements are tuples
\* or objects, the point list of the heat layer has the length and order of A
\* and its i-th point is the tuple of A[i]; {"heatmap_data":[[1,2,3]]},
\* [[1,2,3]] and [{"lat":1,"lon":2,"intensity":3}] all give [[1,2,3]].
C14_HeatPointsNormalized ==
    (pc = "done" /\ server.heatmap \in HeatPayloads) =>
        LET A == C14_Array(server.heatmap)
        IN  /\ heatmapLayer.val = [i \in 1..Len(A) |-> Arr(C14_Triple(A[i]))]
            /\ server.heatmap \in {Obj([heatmap_data |-> HeatTuples]),
                                    HeatTuples, HeatObjects}
                  => heatmapLayer.val
                        = <<Arr(<<Num(1000), Num(2000), Num(3000)>>)>>

\* a heat layer made from an array that mixes both element shapes
C14_Witness ==
    /\ pc = "done" /\ server.heatmap \in HeatPayloads
    /\ \E i, j \in 1..Len(C14_Array(server.heatmap)) :
          /\ C14_Array(server.heatmap)[i].kind = "array"
          /\ C14_Array(server.heatmap)[j].kind = "object"

\* the worst-roads sequence of the payload served
C15_Roads ==
    (IF server.worstRoads.kind = "array" THEN server.worstRoads
     ELSE server.worstRoads.val.worst_roads).val

\* C15: after a load that succeeded the list shows min(10, n) items for a
\* worst-roads sequence of length n, and the i-th item is made from the i-th
\* entry (its street name, its severity and its priority score).
C15_FirstTenInOrder ==
    pc = "done" =>
        /\ Len(worstRoads)
              = IF Len(C15_Roads) < 10 THEN Len(C15_Roads) ELSE 10
        /\ \A i \in 1..Len(worstRoads) :
              /\ worstRoads[i].street_name = C15_Roads[i].val.street_name
              /\ worstRoads[i].severity = toFixed1(C15_Roads[i].val.avg_severity)
              /\ worstRoads[i].priority
                    = toFixed1(C15_Roads[i].val.priority_score)

\* a list of more than ten entries has been rendered
C15_Witness == pc = "done" /\ Len(C15_Roads) > 10 /\ Len(worstRoads) = 10

\* the count shown when the first field present wins
C16_Expected(road) ==
    IF "defect_count" \in DOMAIN road.val
    THEN NumToString(road.val.defect_count.val)
    ELSE IF "total_defects" \in DOMAIN road.val
         THEN NumToString(road.val.total_defects.val)
         ELSE "0"

\* C16: every rendered worst-roads item shows defect_count when the entry has
\* that field (0 included), else total_defects when the entry has that field,
\* else 0.
C16_FirstPresentCountWins ==
    pc = "done" =>
        \A i \in 1..Len(worstRoads) :
            worstRoads[i].defects = C16_Expected(C15_Roads[i])

\* the type a record is counted under
C17_Type(d) ==
    IF "defect_type" \in DOMAIN d /\ d.defect_type.val # ""
    THEN d.defect_type.val ELSE "unknown"

C17_Types == {C17_Type(defectsData[i]) : i \in 1..Len(defectsData)}

\* C17: once createDefectChart has run the chart has one entry per distinct
\* defect type of defectsData and no other; the entry of a type holds the
\* number of records of that type, and its color is the color of the table
\* or, for a type outside the table, #6b7280.
C17_ChartCountsTypes ==
    Len(viewsDone) >= 2 =>
        /\ Len(chart.data) = Cardinality(C17_Types)
        /\ \A t \in C17_Types :
              \E i \in 1..Len(chart.data) :
                 /\ chart.labels[i] = IF t \in DOMAIN DEFECT_NAMES
                                      THEN DEFECT_NAMES[t] ELSE t
                 /\ chart.data[i] =
                       Num(1000 * Cardinality({k \in 1..Len(defectsData) :
                                        C17_Type(defectsData[k]) = t}))
                 /\ chart.backgroundColor[i] =
                       IF t \in DOMAIN DEFECT_COLORS THEN DEFECT_COLORS[t]
                       ELSE "#6b7280"

\* C18: the fetches issued are always the first files of the fixed order, at
\* most one of them is unanswered, a fetch is issued only when the response
\* of the one before has resolved with success and its body has been read,
\* and once the catch block is reached no fetch is issued any more.
C18_SequentialFetches ==
    /\ [](/\ fetches = SubSeq(FILES, 1, Len(fetches))
          /\ Len(fetches) - Len(responses) \in {0, 1})
    /\ [][fetches' # fetches =>
            /\ pc = "body"
            /\ Len(responses) = Len(fetches) /\ responses[Len(fetches)]
            /\ fetches' = Append(fetches, FILES[Len(fetches) + 1])]_vars
    /\ [][(pc = "caught" \/ pc' = "caught") =>
            (pc' = "caught" /\ fetches' = fetches)]_vars

\* the third fetch failed and the fourth was never issued
C18_Witness == pc = "caught" /\ Len(fetches) = 3 /\ Len(alerts) = 1

\* C19: when every pending fetch and body read eventually resolves, loadData
\* ends, with the six views completed and no alert or with one alert; and as
\* long as the pending fetch has not resolved loadData stays where it is: no
\* alert, no view initializer, no further fetch.
C19_TerminatesOrStaysSuspended ==
    /\ <>(pc \in {"done", "caught"})
    /\ [](pc = "done" => viewsDone = AllViews /\ alerts = <<>>)
    /\ [](pc = "caught" => Len(alerts) = 1)
    /\ [](pc = "response" => alerts = <<>> /\ viewsDone = <<>>)
    /\ [][(pc = "response"
              /\ ~(FetchRejects \/ \E ok \in BOOLEAN : FetchResolves(ok)))
            => UNCHANGED <<pc, fetches, responses, alerts, viewsDone>>]_vars

\* loadData has ended with every view initialized
C19_Witness == pc = "done" /\ viewsDone = AllViews /\ Len(responses) = 4

\* C20: in the loader of src/frontend/app.js, once a response has a
\* non-success status no later fetch is issued, no view initializer is
\* invoked, and loadData ends with one alert.
C20_FrontendStatusFatal ==
    \A k \in 1..Len(responses) :
        ~responses[k] =>
            /\ Len(fetches) = k
            /\ viewsDone = <<>> /\ dashboard = NoDashboard /\ chart = NoChart
            /\ pc # "done"
            /\ pc = "caught" => Len(alerts) = 1

----------------------------------------------------------------------------
(* C21: the three collections are changed by loadData and confirmLocation  *)
(* only.                                                                   *)

\* the handlers the claim lists as leaving the collections alone
C21_Bystanders ==
    \/ NextMode
    \/ NextTile
    \/ NextRoads
    \/ NextPulse
    \/ \E file \in BOOLEAN : PhotoUploadChange(file)
    \/ \E i \in 1..Len(DEMO_PHOTOS) : ProcessingTimeout(DEMO_PHOTOS[i])
    \/ \E latlng \in ClickPoints : MapClick(latlng)
    \/ cancelConfirm
    \/ cancelUpload

\* defectsData after the step is defectsData with one record added at the end
C21_OneAppended ==
    /\ Len(defectsData') = Len(defectsData) + 1
    /\ SubSeq(defectsData', 1, Len(defectsData)) = defectsData
    /\ UNCHANGED <<worstRoadsData, statsData>>

\* C21: a step that changes defectsData, worstRoadsData or statsData is a step
\* of loadData or of confirmLocation; a mode click, a tile-style click, a
\* click on a worst-roads item, a map click, cancelConfirm, cancelUpload and a
\* pulse-timer tick leave all three as they were; and a confirmLocation step
\* that changes anything adds one record at the end of defectsData and keeps
\* every record that was there
C21_CollectionsFrame ==
    [][dataVars' # dataVars
         => /\ ~C21_Bystanders
            /\ \/ NextLoad
               \/ \E severity \in UploadSeverities : confirmLocation(severity)
            /\ (\E severity \in UploadSeverities : confirmLocation(severity))
                 => C21_OneAppended]_vars

\* an upload was appended behind the two loaded records, critical mode is on
\* with a timer that has ticked, and a list item was clicked
C21_Witness ==
    /\ Len(defectsData) = 3
    /\ isUpload(defectsData[3])
    /\ ~isUpload(defectsData[1])
    /\ "criticalLayer" \in overlays
    /\ ticksRun(pulses, Len(pulses)) > 0
    /\ mapView.zoom = 16
    /\ currentTileLayer = "satellite"

----------------------------------------------------------------------------
(* C22: pulse timers are started and never cancelled.                      *)

\* a record showCriticalDefects gives a marker and a timer
C22_Pulsating(d) ==
    /\ AtLeast(parseFloat(Field(d, "severity")), 7000)
    /\ ~isNaN(parseFloat(Field(d, "lat")))
    /\ ~isNaN(parseFloat(Field(d, "lon")))

\* C22: no step cancels a pulse timer: the number of live interval timers
\* never decreases and every timer alive before a step is alive after it with
\* its base radius; every activation of critical mode adds one timer per
\* record of defectsData with severity >= 7 and numeric coordinates, so each
\* activation over an unchanged collection with c such records adds c timers
\* to those of the earlier activations, whose markers clearLayers has removed
C22_TimersNeverCancelled ==
    [][/\ timers' >= timers
       /\ Len(pulses') = timers'
       /\ \A i \in 1..Len(pulses) :
            pulses'[i].baseRadius10 = pulses[i].baseRadius10
       /\ BtnCritical
            => timers' = timers + Len(SelectSeq(defectsData, C22_Pulsating))]_vars

\* two activations over a collection with two critical records: four timers,
\* two of them for markers no longer in criticalLayer, and one has ticked
C22_Witness ==
    /\ Len(SelectSeq(defectsData, C22_Pulsating)) = 2
    /\ timers = 4
    /\ Len(criticalLayer) = 2
    /\ pulses[1].currentRadius10 # pulses[1].baseRadius10

----------------------------------------------------------------------------
(* C23: where the two parseCSV variants differ and where they agree.       *)

\* a comma of the line from position i on lies between double quotes
RECURSIVE C23_QuotedCommaFrom(_, _, _)
C23_QuotedCommaFrom(line, i, inQuotes) ==
    IF i > Len(line) THEN FALSE
    ELSE LET char == CharAt(line, i)
             nextChar == IF i + 1 <= Len(line) THEN CharAt(line, i + 1) ELSE ""
         IN  IF char = "\""
             THEN IF inQuotes /\ nextChar = "\""
                  THEN C23_QuotedCommaFrom(line, i + 2, inQuotes)
                  ELSE C23_QuotedCommaFrom(line, i + 1, ~inQuotes)
             ELSE (char = "," /\ inQuotes)
                    \/ C23_QuotedCommaFrom(line, i + 1, inQuotes)

\* what parseCSV of src/app.js returns for data line i: its record, or nothing
\* when the filter drops it
C23_AppRecord(i) ==
    LET headers == csvHeaders(csvLines(csvText))
        row == rowObject(headers, csvValues[i])
    IN  IF rowKept(headers, row) THEN row ELSE <<>>

\* every data row with a comma inside a double-quoted field gets different
\* records from the two parsers
C23_QuotedCommaDiffers ==
    csvPc = "parsed" =>
        \A i \in 1..Len(csvValues) :
            C23_QuotedCommaFrom(csvLines(csvText)[i + 1], 1, FALSE)
                => C23_AppRecord(i) # csvFrontendRows[i]

\* no double quote, no line shorter than the header, no empty first column
C23_Plain ==
    LET lines == csvLines(csvText)
        columns == Len(split(lines[1], ","))
    IN  /\ \A k \in 1..Len(csvText) : CharAt(csvText, k) # "\""
        /\ \A i \in 2..Len(lines) :
             /\ Len(split(lines[i], ",")) >= columns
             /\ trim(split(lines[i], ",")[1]) # ""

\* on such an input the two parsers return the same records
C23_PlainAgrees ==
    csvPc = "parsed" /\ C23_Plain => csvRows = csvFrontendRows

\* C23: for every data row in which a comma occurs inside a double-quoted
\* field the two parseCSV variants return different records for that row, and
\* for every input with no double quote, no line shorter than the header and
\* no empty first-column value they return the same sequence of records
C23_ParsersCompared == C23_QuotedCommaDiffers /\ C23_PlainAgrees

----------------------------------------------------------------------------
(* C24: the radius of the markers of createMarkers.                        *)

\* createMarkers has run: viewsDone is a prefix of AllViews
C24_Drawn == Len(viewsDone) >= 4 /\ viewsDone[4] = "createMarkers"

\* a record createMarkers plots
C24_Plotted(d) ==
    /\ ~isNaN(parseFloat(Field(d, "lat")))
    /\ ~isNaN(parseFloat(Field(d, "lon")))

\* the severity of a record parsed as a number, 0 when it is missing or not
\* numeric
C24_Severity(d) ==
    LET s == parseFloat(Field(d, "severity"))
    IN  IF isNaN(s) THEN Num(0) ELSE s

\* the marker of every plotted record has radius 6 + 4 * s / 10 (held ten
\* times over, in thousandths)
C24_RadiusFormula ==
    C24_Drawn =>
        LET plotted == SelectSeq(defectsData, C24_Plotted)
        IN  /\ Len(markersLayer) = Len(plotted)
            /\ \A i \in 1..Len(plotted) :
                 LET s == C24_Severity(plotted[i])
                 IN  markersLayer[i].radius10 =
                        IF s.kind = "number" THEN Num(60000 + 4 * s.val) ELSE s

\* radius between 6 and 10
C24_InRange(radius10) ==
    radius10.kind = "number" /\ radius10.val >= 60000 /\ radius10.val <= 100000

\* C24 as stated: for every record plotted by createMarkers the marker radius
\* is 6 + 4*s/10, s being the severity parsed as a number and 0 when it is
\* missing or not numeric, and the radius lies between 6 and 10
C24_RadiusWithinSixAndTen ==
    /\ C24_RadiusFormula
    /\ \A i \in 1..Len(markersLayer) : C24_InRange(markersLayer[i].radius10)

\* C24 amended: the radius is 6 + 4*s/10 for every plotted record, and it lies
\* between 6 and 10 exactly when s lies between 0 and 10: nothing clamps the
\* severity
C24_RadiusFollowsSeverity ==
    /\ C24_RadiusFormula
    /\ C24_Drawn =>
        LET plotted == SelectSeq(defectsData, C24_Plotted)
        IN  \A i \in 1..Len(plotted) :
              LET s == C24_Severity(plotted[i])
              IN  C24_InRange(markersLayer[i].radius10)
                    <=> (s.kind = "number" /\ s.val >= 0 /\ s.val <= 10000)

\* markers of radius 12 (severity 15), 5 (severity -2.5), 6 (no severity) and
\* 10 (severity 10) were drawn
C24_Witness ==
    /\ C24_Drawn
    /\ Len(markersLayer) = 5
    /\ markersLayer[1].radius10 = Num(120000)
    /\ markersLayer[2].radius10 = Num(50000)
    /\ markersLayer[3].radius10 = Num(60000)
    /\ markersLayer[4].radius10 = Num(60000)
    /\ markersLayer[5].radius10 = Num(100000)

----------------------------------------------------------------------------
(* C25: the priority class of a worst-roads item.                          *)

\* score >= n for the priority_score of a rendered entry (a number, NaN or an
\* infinity, since toFixed was called on it) and a bound n in thousandths
C25_ScoreAtLeast(score, n) ==
    \/ score.kind = "number" /\ score.val >= n
    \/ score.kind = "Infinity"

\* C25: every rendered worst-roads entry has class 'critical' iff its
\* priority_score is at least 8, 'high' iff it is at least 6 and below 8, and
\* 'medium' otherwise
C25_PriorityClasses ==
    \A i \in 1..Len(worstRoads) :
        LET score == Get(worstRoadsData.val[i], "priority_score")
            badge == worstRoads[i].badge
        IN  /\ badge \in {"critical", "high", "medium"}
            /\ badge = "critical" <=> C25_ScoreAtLeast(score, 8000)
            /\ badge = "high" <=> /\ C25_ScoreAtLeast(score, 6000)
                                  /\ ~C25_ScoreAtLeast(score, 8000)

\* a rendered list with scores exactly 8 and 6, and one of each class
C25_Witness ==
    /\ Len(worstRoads) = 10
    /\ worstRoads[4].priority = "8.0" /\ worstRoads[4].badge = "critical"
    /\ worstRoads[8].priority = "6.0" /\ worstRoads[8].badge = "high"
    /\ worstRoads[1].priority = "7.0" /\ worstRoads[1].badge = "high"
    /\ worstRoads[5].priority = "5.0" /\ worstRoads[5].badge = "medium"

----------------------------------------------------------------------------
(* C26: the attached critical layer against the current defectsData.       *)

\* a record with severity >= 7 and numeric coordinates
C26_Critical(d) ==
    /\ AtLeast(parseFloat(Field(d, "severity")), 7000)
    /\ ~isNaN(parseFloat(Field(d, "lat")))
    /\ ~isNaN(parseFloat(Field(d, "lon")))

\* C26: whenever criticalLayer is attached to the map, its markers are
\* exactly the records of the current defectsData with severity >= 7 and
\* numeric coordinates, one marker per record at the record's position, under
\* every interleaving of the clicks with loadData and confirmLocation
C26_CriticalLayerCurrent ==
    "criticalLayer" \in overlays =>
        LET critical == SelectSeq(defectsData, C26_Critical)
        IN  /\ Len(criticalLayer) = Len(critical)
            /\ \A i \in 1..Len(critical) :
                 /\ criticalLayer[i].lat = parseFloat(Field(critical[i], "lat"))
                 /\ criticalLayer[i].lon = parseFloat(Field(critical[i], "lon"))

----------------------------------------------------------------------------
(* C27: the confirmation dialog and the upload state.                      *)

\* C27: after every sequence of invocations of the upload handlers, whenever
\* the confirmation dialog is displayed uploadState.selectedPhoto and
\* uploadState.selectedLocation are both non-null
C27_DialogHasPhotoAndLocation ==
    confirmModal = "flex" =>
        /\ uploadState.selectedPhoto # Null
        /\ uploadState.selectedLocation # Null

----------------------------------------------------------------------------
(* C28: the temporary location marker.                                     *)

\* C28: after every sequence of map clicks, confirmLocation, cancelConfirm and
\* cancelUpload at most one temporary location marker is attached to the map,
\* and uploadState.tempMarker is non-null iff one is attached
C28_OneTempMarker ==
    /\ tempMarkers \in {0, 1}
    /\ uploadState.tempMarker # Null <=> tempMarkers = 1

\* a marker is attached by a click made after confirmLocation had removed the
\* marker of an earlier click and appended its record
C28_Witness ==
    /\ tempMarkers = 1
    /\ uploadState.tempMarker # Null
    /\ Len(SelectSeq(defectsData, isUpload)) >= 1
    /\ confirmModal = "flex"

----------------------------------------------------------------------------
(* C29: display mode and tile style are independent.                       *)

\* C29: a click on btnMarkers, btnHeatmap or btnCritical leaves
\* currentTileLayer and the attached tile layer unchanged, and a click on
\* styleStreets or styleSatellite leaves the attachment of markersLayer,
\* heatmapLayer and criticalLayer unchanged
C29_ModeAndStyleIndependent ==
    [][/\ NextMode => UNCHANGED <<currentTileLayer, tiles>>
       /\ NextTile => UNCHANGED overlays]_vars

\* satellite tiles under the heatmap overlay, after critical mode was used
C29_Witness ==
    /\ tiles = {"satellite"}
    /\ overlays = {"heatmapLayer"}
    /\ criticalLayer # <<>>

----------------------------------------------------------------------------
(* C30: a click on an item of the worst-roads list.                        *)

\* the records of defectsData on the street of list item i
C30_Matches(i) ==
    {j \in 1..Len(defectsData) :
        /\ Field(defectsData[j], "street_name") = worstRoads[i].street_name
        /\ worstRoads[i].street_name.kind # "NaN"}

\* the first of them in collection order
C30_First(i) == CHOOSE j \in C30_Matches(i) : \A k \in C30_Matches(i) : j <= k

\* the view moves to the first matching record, at zoom 16
C30_CentredOnFirst(i) ==
    mapView' = [center |-> <<parseFloat(Field(defectsData[C30_First(i)], "lat")),
                             parseFloat(Field(defectsData[C30_First(i)], "lon"))>>,
                zoom |-> 16]

\* both coordinates of the first matching record are numeric
C30_Numeric(i) ==
    /\ ~isNaN(parseFloat(Field(defectsData[C30_First(i)], "lat")))
    /\ ~isNaN(parseFloat(Field(defectsData[C30_First(i)], "lon")))

\* C30: a click on a worst-roads item re-centres the map on the first record
\* of defectsData, in collection order, whose street_name equals the item's,
\* and only when both its coordinates are numeric; when no record matches, or
\* the coordinates are not numeric, the map view is left as it was
C30_ClickCentresOnNumeric ==
    [][\A i \in 1..Len(worstRoads) :
         RoadItemClick(i) =>
            IF C30_Matches(i) # {} /\ C30_Numeric(i)
            THEN C30_CentredOnFirst(i)
            ELSE UNCHANGED mapView]_vars

====
